---- MODULE Spec2Model ----
(***************************************************************************)
(* Logic Pro Scripter scripts.                                             *)
(*                                                                         *)
(* ChordEnumerator.js, the "Measure Chord Logger (lowest-note root)": the  *)
(* host calls HandleMIDI for every MIDI event and ProcessMIDI once per     *)
(* processing block; both run to completion on one thread, so each is one  *)
(* atomic action.  chordNameFromLowestRoot is a pure function and is       *)
(* modelled as an operator, with the strings it builds built the same way. *)
(*                                                                         *)
(* unnamed/part_001, the "Length-sensitive Note Repeater Tail": HandleMIDI *)
(* pairs note-ons with note-offs in activeNotes and createTailRepeats      *)
(* schedules the repeats; its callbacks are Tail_HandleMIDI and            *)
(* Tail_ProcessMIDI here, the two scripts being separate plugins.          *)
(***************************************************************************)
EXTENDS Integers, Sequences, FiniteSets, TLC

VARIABLES
    currentBar,   \* ChordEnumerator.js: var currentBar (null, a number or NaN)
    barPitches,   \* ChordEnumerator.js: var barPitches (note-ons of this bar)
    lastPlayed,   \* ChordEnumerator.js: var lastPlayed
    params,       \* the host's current plugin parameter values
    t,            \* ProcessMIDI: var t, the TimingInfo the callback that just ran got
    flushes,      \* the flushBar calls (with their Trace lines) of the callback that just ran
    held,         \* history: pitches pressed while playing and not yet released
    abandoned,    \* history: the notes the callback that just ran dropped on a stop
    pitchesIn,    \* chord namer harness: the argument
    info,         \* chord namer harness: <<the value returned>>, <<>> before the call
    activeNotes,  \* part_001: var activeNotes, key -> {on, startBeat}
    lastBeatPos,  \* part_001: var lastBeatPos, in 1/BeatScale beats
    tailParams,   \* part_001: the host's values of the 16 controls
    tailInfo,     \* part_001 ProcessMIDI: var info of the callback that just ran
    passed,       \* part_001: the event.send() of the callback that just ran
    calls,        \* part_001: the createTailRepeats call of the callback that just ran
    scheduled,    \* part_001: its sendAtBeat calls, in program order
    tailsSince    \* history: key -> createTailRepeats calls since its last note-on

vars == <<currentBar, barPitches, lastPlayed, params, t, flushes, held,
          abandoned, pitchesIn, info, activeNotes, lastBeatPos, tailParams,
          tailInfo, passed, calls, scheduled, tailsSince>>

loggerVars ==
    <<currentBar, barPitches, lastPlayed, params, t, flushes, held, abandoned>>
namerVars == <<pitchesIn, info>>
tailVars ==
    <<activeNotes, lastBeatPos, tailParams, tailInfo, passed, calls, scheduled,
      tailsSince>>

-----------------------------------------------------------------------------
(* Bounds of the model *)

\* Longest barPitches the model lets a bar accumulate.
MaxBarNotes == 2
\* Beat positions are exact multiples of 1/BeatScale of a quarter note.
BeatScale == 10
\* Longest free-form pitch list handed to the chord namer harness.
MaxChordLen == 3
\* The chord namer harness draws pitches from PitchBase .. PitchBase + PitchSpan.
PitchBase == 58
PitchSpan == 11

-----------------------------------------------------------------------------
(* JavaScript values that are not plain integers *)

Null == [k |-> "null", v |-> 0]
NaN == [k |-> "NaN", v |-> 0]
Undefined == [k |-> "undefined", v |-> 0]
Num(n) == [k |-> "num", v |-> n]
IsNum(x) == x.k = "num"

\* a !== b
StrictNe(a, b) == a.k = "NaN" \/ b.k = "NaN" \/ a # b
\* a < b on numbers (false as soon as one side is NaN)
Less(a, b) == IsNum(a) /\ IsNum(b) /\ a.v < b.v

\* Math.floor(a / b) for integers a, b with b # 0
FloorDiv(a, b) == IF b > 0 THEN a \div b ELSE (0 - a) \div (0 - b)

Min(S) == CHOOSE x \in S : \A y \in S : x <= y

RECURSIVE SortAsc(_)
\* arr.sort(function (a, b) { return a - b; }) over the distinct values S
SortAsc(S) == IF S = {} THEN <<>> ELSE <<Min(S)>> \o SortAsc(S \ {Min(S)})

Reverse(q) == [i \in DOMAIN q |-> q[Len(q) + 1 - i]]

Range(q) == {q[i] : i \in DOMAIN q}

\* s begins with prefix
startsWith(s, prefix) ==
    Len(s) >= Len(prefix) /\ SubSeq(s, 1, Len(prefix)) = prefix

RECURSIVE join(_, _)
\* Array.prototype.join on an array of numbers or strings
join(arr, sep) ==
    IF Len(arr) = 0 THEN ""
    ELSE IF Len(arr) = 1 THEN ToString(arr[1])
    ELSE ToString(arr[1]) \o sep \o join(Tail(arr), sep)

RECURSIVE joinStr(_, _)
joinStr(arr, sep) ==
    IF Len(arr) = 0 THEN ""
    ELSE IF Len(arr) = 1 THEN arr[1]
    ELSE arr[1] \o sep \o joinStr(Tail(arr), sep)

RECURSIVE indexOfFrom(_, _, _)
indexOfFrom(s, sub, i) ==
    IF i + Len(sub) - 1 > Len(s) THEN -1
    ELSE IF SubSeq(s, i, i + Len(sub) - 1) = sub THEN i - 1
    ELSE indexOfFrom(s, sub, i + 1)

\* String.prototype.indexOf (0-based, -1 when absent)
indexOf(s, sub) == indexOfFrom(s, sub, 1)

-----------------------------------------------------------------------------
(* ChordEnumerator.js: parameters and naming helpers *)

ParamNames == {"Pitch Class Style", "Log Empty Bars", "Include Notes List"}
DefaultParams ==
    [n \in ParamNames |-> IF n = "Include Notes List" THEN 1 ELSE 0]

GetParameter(name) == params[name]

NAMES_SHARPS == <<"C", "C#", "D", "D#", "E", "F", "F#", "G", "G#", "A", "A#", "B">>
NAMES_FLATS == <<"C", "Db", "D", "Eb", "E", "F", "Gb", "G", "Ab", "A", "Bb", "B">>

pcName(pc) ==
    LET p == ((pc % 12) + 12) % 12
    IN  IF GetParameter("Pitch Class Style") = 0
        THEN NAMES_SHARPS[p + 1] ELSE NAMES_FLATS[p + 1]

\* uniqSorted with the comparator the wrong way round (b - a)
uniqSorted_descending(arr) == Reverse(SortAsc({arr[i] : i \in DOMAIN arr}))

uniqSorted(arr) == SortAsc({arr[i] : i \in DOMAIN arr})

pcsFromPitches(pitches) == SortAsc({pitches[i] % 12 : i \in DOMAIN pitches})

intervalsFromRootPC(pcs, rootPC) ==
    uniqSorted([i \in DOMAIN pcs |-> (pcs[i] - rootPC + 12) % 12])

has(ints, v) == \E i \in DOMAIN ints : ints[i] = v

-----------------------------------------------------------------------------
(* ChordEnumerator.js: chordNameFromLowestRoot *)

\* lines 103-119 with the "dim" test moved in front of the "m" test
triadQuality_dimFirst(ints) ==
    IF has(ints, 4) /\ has(ints, 7) THEN ""
    ELSE IF has(ints, 3) /\ has(ints, 6) THEN "dim"
    ELSE IF has(ints, 3) /\ has(ints, 7) THEN "m"
    ELSE IF has(ints, 4) /\ has(ints, 8) THEN "aug"
    ELSE IF has(ints, 2) /\ has(ints, 7) THEN "sus2"
    ELSE IF has(ints, 5) /\ has(ints, 7) THEN "sus4"
    ELSE ""

\* lines 103-119: the "triad-ish" quality, first match wins
triadQuality(ints) ==
    IF has(ints, 4) /\ has(ints, 7) THEN ""
    ELSE IF has(ints, 3) /\ has(ints, 7) THEN "m"
    ELSE IF has(ints, 3) /\ has(ints, 6) THEN "dim"
    ELSE IF has(ints, 4) /\ has(ints, 8) THEN "aug"
    ELSE IF has(ints, 2) /\ has(ints, 7) THEN "sus2"
    ELSE IF has(ints, 5) /\ has(ints, 7) THEN "sus4"
    ELSE ""

\* lines 124-126: 7ths
suffixSevenths(ints) ==
    IF has(ints, 10) THEN "7"
    ELSE IF has(ints, 11) THEN "maj7"
    ELSE ""

\* lines 128-134: 6
suffixSixth(ints, suffix) ==
    IF has(ints, 9) /\ indexOf(suffix, "7") = -1
    THEN LET s1 == suffix \o (IF suffix # "" THEN "" ELSE "6")
         IN  IF s1 = "" THEN "6"
             ELSE IF s1 = "maj7" THEN s1 \o "(add6)"
             ELSE s1
    ELSE suffix

\* lines 136-145: 9 / add9
suffixNinth(ints, quality, suffix) ==
    IF has(ints, 2)
    THEN IF suffix = "" /\ (quality = "" \/ quality = "m" \/ quality = "dim"
                            \/ quality = "aug" \/ indexOf(quality, "sus") = 0)
         THEN LET s1 == suffix \o (IF suffix # "" THEN "" ELSE "")
              IN  s1 \o (IF s1 # "" /\ s1 # "6" THEN "(add9)" ELSE "add9")
         ELSE suffix \o "9"
    ELSE suffix

\* lines 147-151: 11 / add11
suffixEleventh(ints, quality, suffix) ==
    IF has(ints, 5) /\ quality # "sus4"
    THEN suffix \o (IF suffix # "" THEN "" ELSE "") \o "add11"
    ELSE suffix

\* lines 153-157: 13
suffixThirteenth(ints, suffix) ==
    IF has(ints, 9) /\ (has(ints, 10) \/ has(ints, 11))
    THEN suffix \o "13" ELSE suffix

\* lines 159-163: alterations b5, #5, b9, #9
suffixAlterations(ints, quality, suffix) ==
    LET s1 == IF has(ints, 6) /\ quality # "dim" THEN suffix \o "b5" ELSE suffix
        s2 == IF has(ints, 8) /\ quality # "aug" THEN s1 \o "#5" ELSE s1
        s3 == IF has(ints, 1) THEN s2 \o "b9" ELSE s2
    IN  IF has(ints, 3) /\ quality = "" THEN s3 \o "#9" ELSE s3

\* lines 122-163: the extension / colour suffix, built token by token
chordSuffix(ints, quality) ==
    LET s7 == suffixSevenths(ints)
        s6 == suffixSixth(ints, s7)
        s9 == suffixNinth(ints, quality, s6)
        s11 == suffixEleventh(ints, quality, s9)
        s13 == suffixThirteenth(ints, s11)
    IN  suffixAlterations(ints, quality, s13)

\* line 173 without its single-pitch-class clause
meaningful_noSingle(quality, suffix, pcs) ==
    quality # "" \/ suffix # ""

\* line 173
meaningful(quality, suffix, pcs) ==
    quality # "" \/ suffix # "" \/ Len(pcs) = 1

\* lines 175-180: the tokens of the interval-set fallback label
fallbackTokens(ints) == SelectSeq(ints, LAMBDA x : x # 0)

\* lines 169-181
chordLabel(rootPC, quality, suffix, pcs, ints) ==
    IF meaningful(quality, suffix, pcs)
    THEN pcName(rootPC) \o quality \o suffix
    ELSE pcName(rootPC) \o " (" \o join(fallbackTokens(ints), ",") \o ")"

chordNameFromLowestRoot(pitchList) ==
    IF Len(pitchList) = 0 THEN "(no notes)"
    ELSE LET pitches == uniqSorted(pitchList)
             bass == pitches[1]
             rootPC == bass % 12
             pcs == pcsFromPitches(pitches)
             ints == intervalsFromRootPC(pcs, rootPC)
             quality == triadQuality(ints)
             suffix == chordSuffix(ints, quality)
         IN  [name |-> chordLabel(rootPC, quality, suffix, pcs, ints),
              bass |-> bass, pcs |-> pcs, pitches |-> pitches,
              intervals |-> ints]

-----------------------------------------------------------------------------
(* Exact fractions: the tail generator's beat positions, parameter values   *)
(* and envelope levels are JavaScript numbers; the model computes with them *)
(* as fractions [n |-> numerator, d |-> denominator > 0] in lowest terms.   *)

RECURSIVE GCD(_, _)
GCD(a, b) == IF b = 0 THEN a ELSE GCD(b, a % b)

Abs(a) == IF a < 0 THEN 0 - a ELSE a

\* n / d for d # 0
Frac(n, d) ==
    LET g == GCD(Abs(n), Abs(d))
    IN  IF d > 0 THEN [n |-> n \div g, d |-> d \div g]
        ELSE [n |-> (0 - n) \div g, d |-> (0 - d) \div g]

Whole(n) == [n |-> n, d |-> 1]

Plus(a, b) == Frac(a.n * b.d + b.n * a.d, a.d * b.d)
Minus(a, b) == Frac(a.n * b.d - b.n * a.d, a.d * b.d)
Times(a, b) == Frac(a.n * b.n, a.d * b.d)
\* a / b for b # 0
Over(a, b) == Frac(a.n * b.d, a.d * b.n)
Lt(a, b) == a.n * b.d < b.n * a.d
Le(a, b) == a.n * b.d <= b.n * a.d
\* Math.max, Math.min
Larger(a, b) == IF Lt(a, b) THEN b ELSE a
Smaller(a, b) == IF Lt(b, a) THEN b ELSE a
\* Math.round: the nearest integer, halves upwards
MathRound(x) == FloorDiv(2 * x.n + x.d, 2 * x.d)

RECURSIVE MathPow(_, _)
\* Math.pow(x, i) for an integer i >= 0
MathPow(x, i) == IF i = 0 THEN Whole(1) ELSE Times(x, MathPow(x, i - 1))

-----------------------------------------------------------------------------
(* unnamed/part_001, the "Length-sensitive Note Repeater Tail"              *)

\* Beat-synced durations (the value column).  The triplet entries are the
\* source's ten-digit decimals cut to six digits.
SYNC_DURATIONS ==
    << Frac(625, 10000),    Frac(83333, 1000000),  Frac(125, 1000),
       Frac(166666, 1000000), Frac(25, 100),       Frac(375, 1000),
       Frac(333333, 1000000), Frac(5, 10),         Frac(75, 100),
       Frac(666666, 1000000), Whole(1),            Frac(15, 10),
       Frac(1333333, 1000000), Whole(2),           Whole(3),
       Frac(2666666, 1000000), Whole(4),           Whole(6) >>

PARAM_INDEX ==
    [NUMERATOR |-> 0, DENOMINATOR |-> 1, QUANTITY |-> 2, DECAY |-> 3,
     GATE |-> 4, PITCH_DECAY |-> 5, PITCH_DECAY_MULTIPLIER |-> 6,
     HIGHPASS_HZ |-> 7, LOWPASS_HZ |-> 8, DELAY |-> 9, ATTACK |-> 10,
     HOLD |-> 11, ENV_DECAY |-> 12, SUSTAIN |-> 13, RELEASE |-> 14,
     VOICES |-> 15]

\* PluginParameters: the defaultValue of each control, in __PARAMS__ order
TailDefaults ==
    << Whole(1), Whole(12), Whole(2), Whole(1), Frac(1, 2), Whole(0),
       Whole(1), Whole(20), Whole(2000), Frac(83, 1000), Whole(0), Whole(0),
       Whole(10), Frac(8, 10), Whole(10), Whole(12) >>

\* unnamed/part_001: the key "pitch:channel"
noteKey(ev) == ToString(ev.pitch) \o ":" \o ToString(ev.channel)

param(idx) == tailParams[idx + 1]

clamp(val, min, max) ==
    IF Lt(val, min) THEN min ELSE IF Lt(max, val) THEN max ELSE val

envDurationFromMenu(idx) ==
    LET selection == MathRound(param(idx))
        safeIdx == clamp(Whole(selection), Whole(0), Whole(Len(SYNC_DURATIONS) - 1))
    IN  SYNC_DURATIONS[safeIdx.n + 1]

\* 440 * 2^(k / 12) for k = 0 .. 11, in thousandths of a hertz
SemitoneMilliHz ==
    << 440000, 466164, 493883, 523251, 554365, 587330,
       622254, 659255, 698456, 739989, 783991, 830609 >>

RECURSIVE TwoTo(_)
TwoTo(k) == IF k = 0 THEN 1 ELSE 2 * TwoTo(k - 1)

\* 440 * Math.pow(2, (pitch - 69) / 12) for a whole pitch, to the nearest
\* thousandth of a hertz within the octave
midiPitchToHz(pitch) ==
    LET k == pitch.n - 69
        octave == FloorDiv(k, 12)
        base == SemitoneMilliHz[(k - 12 * octave) + 1]
    IN  IF octave >= 0 THEN Frac(base * TwoTo(octave), 1000)
        ELSE Frac(base, 1000 * TwoTo(0 - octave))

\* line 374 returning 1 at t <= 0 also when there is an attack stage
envelopeAtTime_startFull(tm, a, h, d, s, r, total) ==
    LET attackEnd == a
        holdEnd == Plus(attackEnd, h)
        decayEnd == Plus(holdEnd, d)
        releaseStart == Larger(decayEnd, Minus(total, r))
    IN  IF Le(tm, Whole(0)) THEN Whole(1)
        ELSE IF Lt(tm, attackEnd) /\ Lt(Whole(0), a) THEN Over(tm, a)
        ELSE IF Lt(tm, holdEnd) THEN Whole(1)
        ELSE IF Lt(tm, decayEnd) /\ Lt(Whole(0), d)
             THEN Plus(Whole(1), Times(Over(Minus(tm, holdEnd), d), Minus(s, Whole(1))))
        ELSE IF Lt(tm, releaseStart) THEN s
        ELSE IF Le(r, Whole(0)) THEN Whole(0)
        ELSE Times(s, Minus(Whole(1), Smaller(Whole(1), Over(Minus(tm, releaseStart), r))))

\* Basic AHDSR, times in beats, sustain as a level 0..1
envelopeAtTime(tm, a, h, d, s, r, total) ==
    LET attackEnd == a
        holdEnd == Plus(attackEnd, h)
        decayEnd == Plus(holdEnd, d)
        releaseStart == Larger(decayEnd, Minus(total, r))
    IN  IF Le(tm, Whole(0)) THEN (IF Lt(Whole(0), a) THEN Whole(0) ELSE Whole(1))
        ELSE IF Lt(tm, attackEnd) /\ Lt(Whole(0), a) THEN Over(tm, a)
        ELSE IF Lt(tm, holdEnd) THEN Whole(1)
        ELSE IF Lt(tm, decayEnd) /\ Lt(Whole(0), d)
             THEN Plus(Whole(1), Times(Over(Minus(tm, holdEnd), d), Minus(s, Whole(1))))
        ELSE IF Lt(tm, releaseStart) THEN s
        ELSE IF Le(r, Whole(0)) THEN Whole(0)
        ELSE Times(s, Minus(Whole(1), Smaller(Whole(1), Over(Minus(tm, releaseStart), r))))

\* line 314 dividing by 1 when the denominator is 0
spacingOf_denominatorOne(numerator, denominator) ==
    IF denominator # Whole(0) THEN Over(numerator, denominator) ELSE numerator

\* line 314: the user-entered fraction as a beat spacing
spacingOf(numerator, denominator) ==
    IF denominator # Whole(0) THEN Over(numerator, denominator) ELSE Whole(0)

\* lines 292, 306: Math.max(1, Math.round(value))
atLeastOne(value) == IF MathRound(value) < 1 THEN 1 ELSE MathRound(value)

\* line 319 without the cap by voices
repeatCount_quantity(quantity, voices) == quantity

\* line 319: Math.min(quantity, voices)
repeatCount(quantity, voices) == IF voices < quantity THEN voices ELSE quantity

\* lines 321-322
gateBeatsOf(spacing, gateFrac) ==
    IF Le(Times(spacing, gateFrac), Whole(0))
    THEN Times(spacing, Frac(1, 2)) ELSE Times(spacing, gateFrac)

\* line 332
tailEnvOf(velDecay, i) ==
    IF Lt(Whole(0), velDecay) THEN MathPow(velDecay, i) ELSE Whole(1)

\* lines 334-336
velocityOf(baseVel, tailEnv, adsrEnv) ==
    LET vel == MathRound(Times(Times(Whole(baseVel), tailEnv), adsrEnv))
    IN  IF vel < 1 THEN 1 ELSE IF vel > 127 THEN 127 ELSE vel

\* The sendAtBeat calls of createTailRepeats, in program order; releaseBeat is
\* in 1/BeatScale beats.  "index" is the loop variable i of the pass that made
\* the call.  lengthBeats is not read.
createTailRepeats(srcNoteOn, lengthBeats, releaseBeat) ==
    LET numerator == param(PARAM_INDEX.NUMERATOR)
        denominator == param(PARAM_INDEX.DENOMINATOR)
        quantity == atLeastOne(param(PARAM_INDEX.QUANTITY))
        velDecay == param(PARAM_INDEX.DECAY)
        gateFrac == param(PARAM_INDEX.GATE)
        pitchDecay == param(PARAM_INDEX.PITCH_DECAY)
        pitchDecayMultiplier == param(PARAM_INDEX.PITCH_DECAY_MULTIPLIER)
        transposeStep == Times(pitchDecay, pitchDecayMultiplier)
        hp0 == param(PARAM_INDEX.HIGHPASS_HZ)
        lp0 == param(PARAM_INDEX.LOWPASS_HZ)
        delayBeats == param(PARAM_INDEX.DELAY)
        envA == envDurationFromMenu(PARAM_INDEX.ATTACK)
        envH == envDurationFromMenu(PARAM_INDEX.HOLD)
        envD == envDurationFromMenu(PARAM_INDEX.ENV_DECAY)
        envS == param(PARAM_INDEX.SUSTAIN)
        envR == envDurationFromMenu(PARAM_INDEX.RELEASE)
        voices == atLeastOne(param(PARAM_INDEX.VOICES))
        hpHz == IF Lt(lp0, hp0) THEN lp0 ELSE hp0
        lpHz == IF Lt(lp0, hp0) THEN hp0 ELSE lp0
        spacing == spacingOf(numerator, denominator)
        repeats == repeatCount(quantity, voices)
        gateBeats == gateBeatsOf(spacing, gateFrac)
        baseVel == srcNoteOn.velocity
        totalSpan ==
            Plus(Times(spacing, Whole(IF repeats - 1 > 0 THEN repeats - 1 ELSE 0)), envR)
        pass(i) ==
            LET beatTime == Plus(Plus(Frac(releaseBeat, BeatScale), delayBeats),
                                 Times(spacing, Whole(i)))
                adsrEnv == envelopeAtTime(Times(Whole(i), spacing),
                                          envA, envH, envD, envS, envR, totalSpan)
                vel == velocityOf(baseVel, tailEnvOf(velDecay, i), adsrEnv)
                pitch == clamp(Plus(Whole(srcNoteOn.pitch), Times(transposeStep, Whole(i))),
                               Whole(0), Whole(127))
                hz == midiPitchToHz(pitch)
            IN  [skip |-> Lt(hz, hpHz) \/ Lt(lpHz, hz),
                 on |-> [type |-> "NoteOn", pitch |-> pitch, velocity |-> vel,
                         channel |-> srcNoteOn.channel, beat |-> beatTime,
                         index |-> i],
                 off |-> [type |-> "NoteOff", pitch |-> pitch, velocity |-> vel,
                          channel |-> srcNoteOn.channel,
                          beat |-> Plus(beatTime, gateBeats), index |-> i]]
        sent == SelectSeq([i \in 1 .. repeats |-> pass(i - 1)], LAMBDA e : ~e.skip)
    IN  IF Le(spacing, Whole(0)) THEN <<>>
        ELSE [j \in 1 .. 2 * Len(sent) |->
                 IF j % 2 = 1 THEN sent[(j + 1) \div 2].on ELSE sent[j \div 2].off]

\* lines 247-249 and 265-267: the event's beat position, or the cached block start
beatOrLast(beatPos) == IF IsNum(beatPos) THEN beatPos.v ELSE lastBeatPos

\* line 268 without Math.max
heldLength_signed(startBeat, endBeat) == endBeat - startBeat

\* line 268: Math.max(0, endBeat - startBeat)
heldLength(startBeat, endBeat) ==
    IF endBeat - startBeat > 0 THEN endBeat - startBeat ELSE 0

\* lines 250-253 keeping the entry that is already open
storeNote_keepFirst(an, key, entry) ==
    [k \in DOMAIN an \cup {key} |-> IF k \in DOMAIN an THEN an[k] ELSE entry]

\* lines 250-253: activeNotes[key] = entry
storeNote(an, key, entry) ==
    [k \in DOMAIN an \cup {key} |-> IF k = key THEN entry ELSE an[k]]

\* line 271 left out
deleteNote_keep(an, key) == an

\* line 271: delete activeNotes[offKey]
deleteNote(an, key) == [k \in DOMAIN an \ {key} |-> an[k]]

\* var activeNotes = {}
NoNotes == [k \in {} |-> k]

\* An entry of activeNotes is {on, startBeat} with two history annotations
\* that the script does not keep: whether a stopped transport has been observed
\* since it was stored, and whether it took the place of an open entry.
NoteEntry(event) ==
    [on |-> [pitch |-> event.pitch, channel |-> event.channel,
             velocity |-> event.velocity],
     startBeat |-> beatOrLast(event.beatPos),
     stale |-> FALSE,
     replaced |-> noteKey(event) \in DOMAIN activeNotes]

MarkStaleNotes(an) == [k \in DOMAIN an |-> [an[k] EXCEPT !.stale = TRUE]]

-----------------------------------------------------------------------------
(* ChordEnumerator.js: measure accumulation *)

\* An entry of barPitches is the pushed pitch with history annotations that the
\* script does not keep: whether the last block reported playing when the
\* note-on was delivered, the tracked bar at that moment, and whether a
\* transport stop has been observed since.
Note(pitch) ==
    [pitch |-> pitch, playing |-> lastPlayed, bar |-> currentBar, stale |-> FALSE]

PitchesOf(bp) == [i \in DOMAIN bp |-> bp[i].pitch]

MarkStale(bp) == [i \in DOMAIN bp |-> [bp[i] EXCEPT !.stale = TRUE]]

\* flushBar: the Trace lines it emits for the pitches of the bar, in order
flushBar(barNumber, pitches) ==
    LET logEmpty == GetParameter("Log Empty Bars") = 1
    IN  IF Len(pitches) = 0
        THEN IF logEmpty
             THEN <<"Bar " \o ToString(barNumber) \o ": (no notes)">>
             ELSE <<>>
        ELSE LET inf == chordNameFromLowestRoot(pitches)
                 pcsNames == joinStr([i \in DOMAIN inf.pcs |-> pcName(inf.pcs[i])], "-")
                 msg == "Bar " \o ToString(barNumber) \o ": " \o inf.name
                        \o "  | bass=" \o ToString(inf.bass)
                        \o "  | PCs=" \o pcsNames
                 msg2 == IF GetParameter("Include Notes List") = 1
                         THEN msg \o "  | notes=" \o join(inf.pitches, ",")
                         ELSE msg
             IN  <<msg2, "          semitones=" \o join(inf.intervals, ",")>>

\* line 252 passing the 0-based tracked bar to flushBar
FlushRecord_zeroBased(cb, bp) ==
    [bar |-> cb.v, idx |-> cb.v, notes |-> bp,
     lines |-> flushBar(cb.v, PitchesOf(bp))]

\* One flushBar call: its argument, the tracked bar and the accumulated notes
\* at the call, and the lines it sent to Trace.
FlushRecord(cb, bp) ==
    [bar |-> cb.v + 1, idx |-> cb.v, notes |-> bp,
     lines |-> flushBar(cb.v + 1, PitchesOf(bp))]

\* lines 251-255 with "if" for "while": one flush, then jump to barIndex
AdvanceBars_once(cb, barIndex, bp, fl) ==
    IF Less(cb, barIndex)
    THEN [currentBar |-> barIndex, barPitches |-> <<>>,
          flushes |-> Append(fl, FlushRecord(cb, bp))]
    ELSE [currentBar |-> cb, barPitches |-> bp, flushes |-> fl]

RECURSIVE AdvanceBars(_, _, _, _)
\* lines 251-255: while (currentBar < barIndex) { flushBar; currentBar++; barPitches = [] }
AdvanceBars(cb, barIndex, bp, fl) ==
    IF Less(cb, barIndex)
    THEN AdvanceBars(Num(cb.v + 1), barIndex, <<>>, Append(fl, FlushRecord(cb, bp)))
    ELSE [currentBar |-> cb, barPitches |-> bp, flushes |-> fl]

\* lines 235-240: beatsPerBar = num * (4 / den) as the exact fraction n / d
meterNum(tt) == IF tt.meterNumerator = 0 THEN 4 ELSE tt.meterNumerator
\* line 236 with the fallback constant 1
meterDen_one(tt) == IF tt.meterDenominator = 0 THEN 1 ELSE tt.meterDenominator
meterDen(tt) == IF tt.meterDenominator = 0 THEN 4 ELSE tt.meterDenominator
beatsPerBar(tt) == [n |-> meterNum(tt) * 4, d |-> meterDen(tt)]

\* line 243: Math.floor(t.blockStartBeat / beatsPerBar); a beat position that
\* is not a number gives NaN
barIndexOf(tt) ==
    IF IsNum(tt.blockStartBeat)
    THEN Num(FloorDiv(tt.blockStartBeat.v * beatsPerBar(tt).d,
                      BeatScale * beatsPerBar(tt).n))
    ELSE NaN

\* lines 224-227 without "barPitches = []"
resetOnStop_keepPitches(playing, cb, bp) ==
    IF ~playing /\ lastPlayed
    THEN [currentBar |-> Null, barPitches |-> bp]
    ELSE [currentBar |-> cb, barPitches |-> bp]

\* lines 224-227: reset on stop
resetOnStop(playing, cb, bp) ==
    IF ~playing /\ lastPlayed
    THEN [currentBar |-> Null, barPitches |-> <<>>]
    ELSE [currentBar |-> cb, barPitches |-> bp]

\* lines 249-256 following the computed bar index when it is behind
trackBars_follow(tt, cb, bp) ==
    IF ~tt.playing
    THEN [currentBar |-> cb, barPitches |-> bp, flushes |-> <<>>]
    ELSE LET barIndex == barIndexOf(tt)
             cb1 == IF cb = Null THEN barIndex ELSE cb
         IN  IF StrictNe(barIndex, cb1)
             THEN IF Less(barIndex, cb1)
                  THEN [currentBar |-> barIndex, barPitches |-> <<>>, flushes |-> <<>>]
                  ELSE AdvanceBars(cb1, barIndex, bp, <<>>)
             ELSE [currentBar |-> cb1, barPitches |-> bp, flushes |-> <<>>]

\* lines 230-256: the part of ProcessMIDI after the reset
trackBars(tt, cb, bp) ==
    IF ~tt.playing
    THEN [currentBar |-> cb, barPitches |-> bp, flushes |-> <<>>]
    ELSE LET barIndex == barIndexOf(tt)
             cb1 == IF cb = Null THEN barIndex ELSE cb
         IN  IF StrictNe(barIndex, cb1)
             THEN AdvanceBars(cb1, barIndex, bp, <<>>)
             ELSE [currentBar |-> cb1, barPitches |-> bp, flushes |-> <<>>]

\* What GetTimingInfo returns while playing: a beat position (in 1/BeatScale
\* beats, or none) and a meter <<numerator, denominator>>.  ProcessMIDI reads
\* neither when the transport is stopped, so one stopped snapshot stands for
\* all of them.
BeatPositions ==
    {Num(b * BeatScale) : b \in {0, 4, 20}}
        \cup {Num(4 * BeatScale - 1), Num(4 * BeatScale + 1)}
        \cup {Undefined}
Meters == {<<4, 4>>, <<6, 8>>, <<7, 8>>}
\* Meters with a missing (0) or negative part, which a well-formed host does
\* not report.
MalformedMeters == {<<3, 0>>, <<4, 0>>, <<0, 0>>, <<0, 4>>, <<4, -4>>, <<3, -8>>}
Snapshots(meters) ==
    {[playing |-> TRUE, blockStartBeat |-> b,
      meterNumerator |-> m[1], meterDenominator |-> m[2]] :
        b \in BeatPositions, m \in meters}
    \cup {[playing |-> FALSE, blockStartBeat |-> Num(0),
           meterNumerator |-> 4, meterDenominator |-> 4]}
TimingInfos == Snapshots(Meters)
AnyTimingInfos == Snapshots(Meters \cup MalformedMeters)
\* t when the callback that just ran is not ProcessMIDI (only ProcessMIDI
\* calls GetTimingInfo)
NoTimingInfo ==
    [playing |-> FALSE, blockStartBeat |-> Undefined,
     meterNumerator |-> 0, meterDenominator |-> 0]

LoggerPitches == {60, 67}
MidiEvents ==
    [type : {"NoteOn", "NoteOff"}, pitch : LoggerPitches]
        \cup {[type |-> "ControlChange", pitch |-> 0]}

-----------------------------------------------------------------------------
(* unnamed/part_001: state and callbacks *)

\* The state after the script is loaded.
TailInit ==
    /\ activeNotes = NoNotes
    /\ lastBeatPos = 0 - BeatScale
    /\ tailParams = TailDefaults
    /\ tailInfo = NoTimingInfo
    /\ passed = <<>>
    /\ calls = <<>>
    /\ scheduled = <<>>
    /\ tailsSince = NoNotes

\* The events the host delivers: notes on two pitches and two channels, with
\* a beat position or without one, and one event that is not a note.  Only
\* the first (pitch, channel) is played at two velocities.
TailSlots == {<<60, 1>>, <<60, 2>>, <<64, 1>>}
TailNoteOns ==
    {[type |-> "NoteOn", pitch |-> 60, channel |-> 1, velocity |-> v, beatPos |-> b] :
        v \in {40, 100}, b \in {Undefined, Num(BeatScale)}}
    \cup
    {[type |-> "NoteOn", pitch |-> 60, channel |-> 2, velocity |-> 100,
      beatPos |-> Num(BeatScale)],
     [type |-> "NoteOn", pitch |-> 64, channel |-> 1, velocity |-> 100,
      beatPos |-> Undefined]}
TailEvents ==
    TailNoteOns
    \cup
    {[type |-> "NoteOff", pitch |-> k[1], channel |-> k[2], velocity |-> 0, beatPos |-> b] :
        k \in TailSlots, b \in {Undefined, Num(3 * BeatScale)}}
    \cup
    {[type |-> "ControlChange", pitch |-> 0, channel |-> 1, velocity |-> 0,
      beatPos |-> Undefined]}

\* What GetTimingInfo returns to the tail generator.
TailTimingInfos ==
    {[playing |-> TRUE, blockStartBeat |-> b, meterNumerator |-> 4, meterDenominator |-> 4] :
        b \in {Undefined, Num(2 * BeatScale)}}
    \cup
    {[playing |-> FALSE, blockStartBeat |-> Num(2 * BeatScale),
      meterNumerator |-> 4, meterDenominator |-> 4]}

\* part_001 lines 225-230
Tail_ProcessMIDI(inf) ==
    /\ tailInfo' = inf
    /\ lastBeatPos' = IF IsNum(inf.blockStartBeat)
                      THEN inf.blockStartBeat.v ELSE lastBeatPos
    /\ activeNotes' = IF inf.playing THEN activeNotes ELSE MarkStaleNotes(activeNotes)
    /\ passed' = <<>>
    /\ calls' = <<>>
    /\ scheduled' = <<>>
    /\ UNCHANGED <<tailParams, tailsSince, loggerVars, namerVars>>

\* part_001 lines 243-280
Tail_HandleMIDI(event) ==
    /\ tailInfo' = NoTimingInfo
    /\ passed' = <<event>>
    /\ IF event.type = "NoteOn"
       THEN /\ activeNotes' = storeNote(activeNotes, noteKey(event), NoteEntry(event))
            /\ tailsSince' = [k \in DOMAIN tailsSince \cup {noteKey(event)} |->
                                  IF k = noteKey(event) THEN 0 ELSE tailsSince[k]]
            /\ calls' = <<>>
            /\ scheduled' = <<>>
       ELSE IF event.type = "NoteOff" /\ noteKey(event) \in DOMAIN activeNotes
       THEN LET offKey == noteKey(event)
                inf == activeNotes[offKey]
                startBeat == inf.startBeat
                endBeat == beatOrLast(event.beatPos)
                lengthBeats == heldLength(startBeat, endBeat)
            IN  /\ calls' = <<[on |-> inf.on, lengthBeats |-> lengthBeats,
                               releaseBeat |-> endBeat, startBeat |-> startBeat,
                               stale |-> inf.stale, replaced |-> inf.replaced]>>
                /\ scheduled' = createTailRepeats(inf.on, lengthBeats, endBeat)
                /\ activeNotes' = deleteNote(activeNotes, offKey)
                /\ tailsSince' = [tailsSince EXCEPT ![offKey] = @ + 1]
       ELSE /\ calls' = <<>>
            /\ scheduled' = <<>>
            /\ UNCHANGED <<activeNotes, tailsSince>>
    /\ UNCHANGED <<lastBeatPos, tailParams, loggerVars, namerVars>>

-----------------------------------------------------------------------------
(* ChordEnumerator.js: callbacks *)

HandleMIDI(event) ==
    /\ event.type = "NoteOn" => Len(barPitches) < MaxBarNotes
    /\ barPitches' = IF event.type = "NoteOn"
                     THEN Append(barPitches, Note(event.pitch))
                     ELSE barPitches
    /\ held' = IF event.type = "NoteOn" /\ lastPlayed /\ IsNum(currentBar)
               THEN held \cup {event.pitch}
               ELSE IF event.type = "NoteOff" THEN held \ {event.pitch}
               ELSE held
    /\ flushes' = <<>>
    /\ abandoned' = <<>>
    /\ t' = NoTimingInfo
    /\ UNCHANGED <<currentBar, lastPlayed, params, pitchesIn, info, tailVars>>

ProcessMIDI(tt) ==
    LET stopping == ~tt.playing /\ lastPlayed
        r == resetOnStop(tt.playing, currentBar,
                         IF stopping THEN MarkStale(barPitches) ELSE barPitches)
    IN  \E a \in {trackBars(tt, r.currentBar, r.barPitches)} :
            /\ t' = tt
            /\ lastPlayed' = tt.playing
            /\ currentBar' = a.currentBar
            /\ barPitches' = a.barPitches
            /\ flushes' = a.flushes
            /\ held' = IF stopping THEN {} ELSE held
            /\ abandoned' = IF stopping THEN PitchesOf(barPitches) ELSE <<>>
            /\ UNCHANGED <<params, pitchesIn, info, tailVars>>

\* The user moves a control of the plugin.
SetParameter(name, value) ==
    /\ params[name] # value
    /\ params' = [params EXCEPT ![name] = value]
    /\ flushes' = <<>>
    /\ abandoned' = <<>>
    /\ t' = NoTimingInfo
    /\ UNCHANGED <<currentBar, barPitches, lastPlayed, held, pitchesIn, info, tailVars>>

Init ==
    /\ currentBar = Null
    /\ barPitches = <<>>
    /\ lastPlayed = FALSE
    /\ params = DefaultParams
    /\ t = NoTimingInfo
    /\ flushes = <<>>
    /\ held = {}
    /\ abandoned = <<>>
    /\ pitchesIn = <<>>
    /\ info = <<>>
    /\ TailInit

Next ==
    \/ \E event \in MidiEvents : HandleMIDI(event)
    \/ \E tt \in TimingInfos : ProcessMIDI(tt)
    \/ \E name \in ParamNames, value \in {0, 1} : SetParameter(name, value)

Spec == Init /\ [][Next]_vars

\* The tracker alone, driven by any host, well-formed or not.
NextMeter == \E tt \in AnyTimingInfos : ProcessMIDI(tt)

SpecMeter == Init /\ [][NextMeter]_vars

\* The logger's state before its first callback.
LoggerInit ==
    /\ currentBar = Null
    /\ barPitches = <<>>
    /\ lastPlayed = FALSE
    /\ params = DefaultParams
    /\ t = NoTimingInfo
    /\ flushes = <<>>
    /\ held = {}
    /\ abandoned = <<>>
    /\ pitchesIn = <<>>
    /\ info = <<>>

\* The tail generator with its default control values: the host delivers
\* events and ticks.
NextTail ==
    \/ \E event \in TailEvents : Tail_HandleMIDI(event)
    \/ \E inf \in TailTimingInfos : Tail_ProcessMIDI(inf)

SpecTail == Init /\ [][NextTail]_vars

-----------------------------------------------------------------------------
(* Claims about the chord logger, checked under Spec (C5 under SpecMeter) *)

\* This step is a ProcessMIDI call (with the TimingInfo t').
IsTick == t' # NoTimingInfo

LogEmptyBars == GetParameter("Log Empty Bars") = 1

\* C1: a playing tick emits no flush when it is the first one after start or
\* reset (the tracked bar is set to the computed bar index), and otherwise
\* exactly K flushes when the computed bar index exceeds the tracked bar by
\* K >= 0, one per bar crossed, in ascending bar order.
C1_FlushPerBarCrossed ==
    [][(t'.playing /\ IsTick) =>
        LET barIndex == barIndexOf(t')
        IN  IF currentBar = Null
            THEN flushes' = <<>> /\ currentBar' = barIndex
            ELSE (IsNum(currentBar) /\ IsNum(barIndex) /\ barIndex.v >= currentBar.v) =>
                    /\ Len(flushes') = barIndex.v - currentBar.v
                    /\ \A i \in DOMAIN flushes' :
                          /\ flushes'[i].idx = currentBar.v + i - 1
                          /\ flushes'[i].bar = currentBar.v + i
                    /\ currentBar' = barIndex]_vars

\* at 4/4 a tick at beat 20 that found the tracked bar at 1 (beat 4) flushed
\* bars 2, 3, 4 and 5
C1_Witness ==
    /\ t.playing /\ t.blockStartBeat = Num(20 * BeatScale)
    /\ t.meterNumerator = 4 /\ t.meterDenominator = 4
    /\ Len(flushes) = 4
    /\ flushes[1].bar = 2 /\ flushes[4].bar = 5
    /\ currentBar = Num(5)

\* C2: a tick that observes playing -> stopped clears the tracked bar and the
\* accumulated pitches without a flush; no stopped tick emits a line; a note
\* that was accumulated when a stop was observed is in no later flush; the first
\* playing tick after a stop anchors the tracked bar at the bar index of the
\* resume position, with no flush.
C2_StopClearsWithoutFlush ==
    [][/\ IsTick =>
              IF t'.playing
              THEN ~lastPlayed => (currentBar' = barIndexOf(t') /\ flushes' = <<>>)
              ELSE /\ flushes' = <<>>
                   /\ lastPlayed => (currentBar' = Null /\ barPitches' = <<>>)
       /\ \A i \in DOMAIN flushes' : \A j \in DOMAIN flushes'[i].notes :
              ~flushes'[i].notes[j].stale]_vars

\* a stop has just been observed with notes accumulated in the open bar
C2_Witness ==
    /\ abandoned # <<>>
    /\ ~lastPlayed
    /\ currentBar = Null /\ barPitches = <<>> /\ flushes = <<>>

\* C3: a note pressed while playing and still held when a bar is flushed is in
\* that bar's summary.
C3_HeldNoteInEveryBar ==
    \A i \in DOMAIN flushes : held \subseteq Range(PitchesOf(flushes[i].notes))

\* C4: every note of a flushed bar was delivered while the transport was
\* playing and after the tick that opened that bar.
C4_OnlyNotesOfTheOpenBar ==
    \A i \in DOMAIN flushes : \A j \in DOMAIN flushes[i].notes :
        /\ flushes[i].notes[j].playing
        /\ flushes[i].notes[j].bar = Num(flushes[i].idx)

C6_MissingBeatKeepsTracking ==
    /\ (t.playing /\ ~IsNum(t.blockStartBeat)) => flushes = <<>>
    /\ (t.playing /\ lastPlayed /\ IsNum(t.blockStartBeat)) =>
          IsNum(currentBar) /\ currentBar.v >= barIndexOf(t).v

-----------------------------------------------------------------------------
(* chordNameFromLowestRoot on its own: the argument is drawn in the initial  *)
(* state and one step applies the function.                                 *)

ChordPitches == PitchBase .. (PitchBase + PitchSpan)

RECURSIVE SeqsUpTo(_, _)
\* every sequence over S of length 0 .. n
SeqsUpTo(S, n) ==
    IF n = 0 THEN {<<>>}
    ELSE LET shorter == SeqsUpTo(S, n - 1)
         IN  shorter \cup {Append(q, x) : q \in shorter, x \in S}

\* Free-form short lists (any order, duplicates allowed) and every non-empty
\* set of pitches, listed from the highest down.
ChordInputs(maxLen) ==
    SeqsUpTo(ChordPitches, maxLen)
        \cup {Reverse(SortAsc(S)) : S \in (SUBSET ChordPitches) \ {{}}}

InitChord ==
    /\ currentBar = Null
    /\ barPitches = <<>>
    /\ lastPlayed = FALSE
    /\ params \in {[DefaultParams EXCEPT !["Pitch Class Style"] = style] :
                      style \in {0, 1}}
    /\ t = NoTimingInfo
    /\ flushes = <<>>
    /\ held = {}
    /\ abandoned = <<>>
    /\ pitchesIn \in ChordInputs(MaxChordLen)
    /\ info = <<>>
    /\ TailInit

NameChord ==
    /\ info = <<>>
    /\ info' = <<chordNameFromLowestRoot(pitchesIn)>>
    /\ UNCHANGED <<loggerVars, pitchesIn, tailVars>>

NextChord == NameChord

SpecChord == InitChord /\ [][NextChord]_vars

\* The namer has been applied to a non-empty list.
Named == info # <<>> /\ Len(pitchesIn) > 0

\* Lists with the same pitches as q: other orders and other multiplicities.
Variants(q) ==
    IF Len(q) <= 3
    THEN {v \in SeqsUpTo(Range(q), Len(q) + 1) : Range(v) = Range(q)}
    ELSE {Reverse(q), q \o q, Tail(q) \o <<Head(q)>>, SortAsc(Range(q))}

-----------------------------------------------------------------------------
(* Claims about chordNameFromLowestRoot, checked under SpecChord *)

\* C8: for every non-empty pitch list the returned bass is the minimum pitch,
\* the intervals are those of the pitches above the bass's pitch class (so the
\* root pitch class is bass mod 12), they contain 0, lie in 0..11 and are
\* strictly ascending; and every reordering or duplication of the same pitches
\* gives the same result.
C8_RootAndIntervalSet ==
    Named =>
        LET r == info[1]
        IN  /\ r.bass = Min(Range(pitchesIn))
            /\ startsWith(r.name, pcName(r.bass % 12))
            /\ Range(r.intervals) = {(p - r.bass) % 12 : p \in Range(pitchesIn)}
            /\ 0 \in Range(r.intervals)
            /\ Range(r.intervals) \subseteq 0 .. 11
            /\ \A i \in 1 .. Len(r.intervals) - 1 : r.intervals[i] < r.intervals[i + 1]
            /\ \A v \in Variants(pitchesIn) : chordNameFromLowestRoot(v) = r

C8_Witness ==
    /\ info # <<>>
    /\ pitchesIn = <<67, 60, 67>>
    /\ info[1].bass = 60
    /\ info[1].intervals = <<0, 7>>

\* C9: a pitch list whose intervals above the lowest pitch are exactly
\* {0,4,7} is labelled with the bare root pitch-class name.
C9_MajorTriadBareRoot ==
    (Named /\ info[1].intervals = <<0, 4, 7>>)
        => info[1].name = pcName(info[1].bass % 12)

QualityByPriority(S) ==
    IF {4, 7} \subseteq S THEN ""
    ELSE IF {3, 7} \subseteq S THEN "m"
    ELSE IF {3, 6} \subseteq S THEN "dim"
    ELSE IF {4, 8} \subseteq S THEN "aug"
    ELSE IF {2, 7} \subseteq S THEN "sus2"
    ELSE IF {5, 7} \subseteq S THEN "sus4"
    ELSE ""

\* C11: the label is built with the quality token that the first matching
\* entry of {4,7} -> "", {3,7} -> "m", {3,6} -> "dim", {4,8} -> "aug",
\* {2,7} -> "sus2", {5,7} -> "sus4", otherwise "", gives for the intervals
\* above the bass; intervals of exactly {0,3,7} give root + "m" and exactly
\* {0,3,6} give root + "dim".
C11_QualityFirstMatch ==
    Named =>
        LET r == info[1]
            root == pcName(r.bass % 12)
            q == QualityByPriority(Range(r.intervals))
        IN  /\ r.name = chordLabel(r.bass % 12, q, chordSuffix(r.intervals, q),
                                   r.pcs, r.intervals)
            /\ q # "" => startsWith(r.name, root \o q)
            /\ r.intervals = <<0, 3, 7>> => r.name = root \o "m"
            /\ r.intervals = <<0, 3, 6>> => r.name = root \o "dim"

\* [62,65,69] is "Dm" with bass 62
C11_Witness ==
    /\ info # <<>>
    /\ pitchesIn = <<62, 65, 69>>
    /\ info[1].name = "Dm"
    /\ info[1].bass = 62

\* C20: with interval 9 present, "(add6)" is in the label when 11 is present
\* and 10 is absent (the suffix so far is "maj7"), and "6" follows the quality
\* token when neither 10 nor 11 is present (the suffix so far is empty); with
\* interval 10 present the label has no 6 token.
C20_SixthTokens ==
    Named =>
        LET r == info[1]
            S == Range(r.intervals)
            root == pcName(r.bass % 12)
            q == QualityByPriority(S)
        IN  /\ (9 \in S /\ 11 \in S /\ 10 \notin S) =>
                  startsWith(r.name, root \o q \o "maj7(add6)")
            /\ (9 \in S /\ 11 \notin S /\ 10 \notin S) =>
                  startsWith(r.name, root \o q \o "6")
            /\ 10 \in S => indexOf(r.name, "6") = -1

-----------------------------------------------------------------------------
(* Claims about the tail generator's note tracking, checked under SpecTail *)

\* The event handled by the HandleMIDI call that makes this step.
IsEvent == passed' # <<>>

\* The beat position the step's event counts with.
EventBeat == IF IsNum(passed'[1].beatPos) THEN passed'[1].beatPos.v ELSE lastBeatPos

\* C12: a note-on is stored with its beat position, a note-off of an open
\* (pitch, channel) hands createTailRepeats the held length
\* max(0, offBeat - onBeat), which is the beat delta D whenever D >= 0; an event
\* without a finite beat position counts with the last block start that
\* ProcessMIDI recorded.
C12_HeldBeatsIsDelta ==
    [][IsEvent =>
        LET ev == passed'[1]
            key == noteKey(ev)
        IN  /\ ev.type = "NoteOn" => activeNotes'[key].startBeat = EventBeat
            /\ (ev.type = "NoteOff" /\ key \in DOMAIN activeNotes) =>
                  LET D == EventBeat - activeNotes[key].startBeat
                  IN  /\ Len(calls') = 1
                      /\ calls'[1].startBeat = activeNotes[key].startBeat
                      /\ calls'[1].releaseBeat = EventBeat
                      /\ calls'[1].lengthBeats = IF D >= 0 THEN D ELSE 0]_vars

\* pressed at beat 1 and released at beat 3: held for 2 beats
C12_Witness ==
    /\ calls # <<>>
    /\ calls[1].startBeat = BeatScale
    /\ calls[1].releaseBeat = 3 * BeatScale
    /\ calls[1].lengthBeats = 2 * BeatScale

\* C13: a note-off whose (pitch, channel) is not open schedules nothing and
\* leaves activeNotes as it is; a note-off of an open one closes it; so no
\* note-on gets more than one createTailRepeats call.
C13_UnmatchedNoteOffDropped ==
    [][/\ IsEvent =>
            LET ev == passed'[1]
                key == noteKey(ev)
            IN  ev.type = "NoteOff" =>
                    IF key \in DOMAIN activeNotes
                    THEN Len(calls') = 1 /\ key \notin DOMAIN activeNotes'
                    ELSE /\ calls' = <<>>
                         /\ scheduled' = <<>>
                         /\ activeNotes' = activeNotes
       /\ \A k \in DOMAIN tailsSince' : tailsSince'[k] <= 1]_vars

\* the second note-off of a note that got its tail was dropped
C13_Witness ==
    /\ passed # <<>>
    /\ passed[1].type = "NoteOff"
    /\ noteKey(passed[1]) \in DOMAIN tailsSince
    /\ tailsSince[noteKey(passed[1])] = 1
    /\ calls = <<>>
    /\ scheduled = <<>>

\* C14: a note-on stores its velocity and beat under its (pitch, channel),
\* in place of an entry that is open there, and touches no other entry; a
\* note-off makes one createTailRepeats call with the stored note and start
\* beat, closes that entry and touches no other.
C14_LastOnWins ==
    [][IsEvent =>
        LET ev == passed'[1]
            key == noteKey(ev)
            others == DOMAIN activeNotes \ {key}
        IN  /\ \A k \in others : k \in DOMAIN activeNotes' /\ activeNotes'[k] = activeNotes[k]
            /\ DOMAIN activeNotes' \subseteq DOMAIN activeNotes \cup {key}
            /\ ev.type = "NoteOn" =>
                  /\ key \in DOMAIN activeNotes'
                  /\ activeNotes'[key].on =
                        [pitch |-> ev.pitch, channel |-> ev.channel,
                         velocity |-> ev.velocity]
                  /\ activeNotes'[key].startBeat = EventBeat
            /\ (ev.type = "NoteOff" /\ key \in DOMAIN activeNotes) =>
                  /\ Len(calls') = 1
                  /\ calls'[1].on = activeNotes[key].on
                  /\ calls'[1].startBeat = activeNotes[key].startBeat
                  /\ key \notin DOMAIN activeNotes']_vars

\* a retriggered note was released and paired with the later note-on, while
\* a note on another channel stays open
C14_Witness ==
    /\ calls # <<>>
    /\ calls[1].replaced
    /\ calls[1].on = [pitch |-> 60, channel |-> 1, velocity |-> 100]
    /\ scheduled # <<>>
    /\ "60:2" \in DOMAIN activeNotes

\* C15: after a tick that observes the transport stopped activeNotes is empty,
\* and no createTailRepeats call is made for a note-on that was stored before
\* a stopped transport was observed.
C15_StopEmptiesActiveNotes ==
    /\ (tailInfo # NoTimingInfo /\ ~tailInfo.playing) => DOMAIN activeNotes = {}
    /\ \A i \in DOMAIN calls : ~calls[i].stale

-----------------------------------------------------------------------------
(* createTailRepeats over the control settings: a note is open when the     *)
(* behaviour starts and the host delivers note-offs.                        *)

\* Control settings inside the declared ranges.  Pitch Decay * Pitch Decay
\* Multiplier is kept whole, so every pitch is a whole number.
TailSettings ==
    {<< Whole(num), Whole(den), Whole(qty), decay, gate, Whole(step[1]),
        Whole(step[2]), Whole(band[1]), Whole(band[2]), Frac(83, 1000),
        Whole(att), Whole(0), Whole(10), Frac(8, 10), Whole(rel), Whole(voices) >> :
        num \in {0, 1, 3}, den \in {0, 4}, qty \in {1, 3}, voices \in {2, 12},
        decay \in {Whole(0), Frac(1, 2), Whole(1)}, gate \in {Frac(1, 20), Whole(1)},
        step \in {<<0, 1>>, <<1, 60>>},
        band \in {<<20, 2000>>, <<2000, 20>>, <<500, 20000>>},
        att \in {0, 10}, rel \in {0, 10}}

ReleasePitches == {60, 100}

\* The note that is open: pressed at beat 1 on channel 1.
OpenNoteOns ==
    {[type |-> "NoteOn", pitch |-> p, channel |-> 1, velocity |-> v,
      beatPos |-> Num(BeatScale)] : p \in ReleasePitches, v \in {40, 127}}

ReleaseEvents ==
    {[type |-> "NoteOff", pitch |-> p, channel |-> 1, velocity |-> 0, beatPos |-> b] :
        p \in ReleasePitches, b \in {Undefined, Num(3 * BeatScale)}}

\* The state after the controls were set, a tick at beat 2 and one note-on.
InitRelease ==
    /\ LoggerInit
    /\ tailParams \in TailSettings
    /\ lastBeatPos = 2 * BeatScale
    /\ tailInfo = NoTimingInfo
    /\ \E ev \in OpenNoteOns :
          /\ passed = <<ev>>
          /\ activeNotes =
                [k \in {noteKey(ev)} |->
                    [on |-> [pitch |-> ev.pitch, channel |-> ev.channel,
                             velocity |-> ev.velocity],
                     startBeat |-> ev.beatPos.v, stale |-> FALSE, replaced |-> FALSE]]
          /\ tailsSince = [k \in {noteKey(ev)} |-> 0]
    /\ calls = <<>>
    /\ scheduled = <<>>

NextRelease == \E event \in ReleaseEvents : Tail_HandleMIDI(event)

SpecRelease == InitRelease /\ [][NextRelease]_vars

-----------------------------------------------------------------------------
(* Claims about createTailRepeats, checked under SpecRelease *)

\* The note-ons among the sendAtBeat calls of the callback that just ran.
TailNoteOnsSent == SelectSeq(scheduled, LAMBDA e : e.type = "NoteOn")

\* C16: when Denominator is 0 or numerator / denominator is not above 0, the
\* release of a note schedules nothing, whatever the other controls and the
\* note are; the note-off is passed on and its entry is removed.
C16_NoSpacingNoTail ==
    calls # <<>> =>
        LET numerator == param(PARAM_INDEX.NUMERATOR)
            denominator == param(PARAM_INDEX.DENOMINATOR)
        IN  (denominator.n = 0 \/ Le(Over(numerator, denominator), Whole(0))) =>
                /\ scheduled = <<>>
                /\ Len(passed) = 1 /\ passed[1].type = "NoteOff"
                /\ noteKey(passed[1]) \notin DOMAIN activeNotes

\* 3/0: the note was released and nothing was scheduled
C16_Witness ==
    /\ calls # <<>>
    /\ param(PARAM_INDEX.NUMERATOR) = Whole(3)
    /\ param(PARAM_INDEX.DENOMINATOR) = Whole(0)
    /\ scheduled = <<>>
    /\ passed # <<>> /\ passed[1].type = "NoteOff"
    /\ DOMAIN activeNotes = {}

\* C17: one release schedules at most min(round(Quantity), round(Voices))
\* note-ons (each count at least 1); every note-on is followed by its note-off
\* at a strictly later beat; the note-ons are submitted in ascending beat order.
C17_CountGateOrder ==
    calls # <<>> =>
        LET quantity == IF MathRound(param(PARAM_INDEX.QUANTITY)) < 1 THEN 1
                        ELSE MathRound(param(PARAM_INDEX.QUANTITY))
            voices == IF MathRound(param(PARAM_INDEX.VOICES)) < 1 THEN 1
                      ELSE MathRound(param(PARAM_INDEX.VOICES))
            ons == TailNoteOnsSent
        IN  /\ Len(ons) <= quantity /\ Len(ons) <= voices
            /\ Len(scheduled) = 2 * Len(ons)
            /\ \A i \in DOMAIN ons :
                  /\ scheduled[2 * i - 1] = ons[i]
                  /\ scheduled[2 * i].type = "NoteOff"
                  /\ scheduled[2 * i].pitch = ons[i].pitch
                  /\ scheduled[2 * i].channel = ons[i].channel
                  /\ Lt(ons[i].beat, scheduled[2 * i].beat)
            /\ \A i \in 1 .. Len(ons) - 1 : Le(ons[i].beat, ons[i + 1].beat)

\* Quantity 3 capped by Voices 2: two note-ons, each with its note-off
C17_Witness ==
    /\ calls # <<>>
    /\ param(PARAM_INDEX.QUANTITY) = Whole(3)
    /\ param(PARAM_INDEX.VOICES) = Whole(2)
    /\ Len(TailNoteOnsSent) = 2
    /\ Len(scheduled) = 4

\* Held lengths to compare a release with, in 1/BeatScale beats.
HeldLengths == {k * BeatScale : k \in 0 .. 4}

\* Tail a has more events than tail b, or a later last event.
TailLonger(a, b) ==
    \/ Len(a) > Len(b)
    \/ Len(a) > 0 /\ Len(b) > 0 /\ Lt(b[Len(b)].beat, a[Len(a)].beat)

\* C18: with the controls, the note and the release beat the same, a note held
\* longer gets a longer tail (more events or a later last event).
C18_LongerHeldLongerTail ==
    calls # <<>> =>
        \A L \in HeldLengths :
            L > calls[1].lengthBeats =>
                TailLonger(createTailRepeats(calls[1].on, L, calls[1].releaseBeat),
                           scheduled)

\* C19: the note-on of repeat i has velocity
\* round(baseVelocity * tailDecay^i * envelope(i * spacing)) clamped into
\* 1..127, for every Tail Decay in [0,1], so with Tail Decay 0 every repeat
\* i >= 1 has velocity 1; its pitch is
\* originalPitch + pitchDecay * pitchDecayMultiplier * i clamped into 0..127.
C19_VelocityAndPitch ==
    calls # <<>> =>
        LET c == calls[1]
            spacing == Over(param(PARAM_INDEX.NUMERATOR), param(PARAM_INDEX.DENOMINATOR))
            decay == param(PARAM_INDEX.DECAY)
            repeats == repeatCount(atLeastOne(param(PARAM_INDEX.QUANTITY)),
                                   atLeastOne(param(PARAM_INDEX.VOICES)))
            envR == envDurationFromMenu(PARAM_INDEX.RELEASE)
            totalSpan == Plus(Times(spacing, Whole(repeats - 1)), envR)
            amplitude(i) ==
                envelopeAtTime(Times(Whole(i), spacing),
                               envDurationFromMenu(PARAM_INDEX.ATTACK),
                               envDurationFromMenu(PARAM_INDEX.HOLD),
                               envDurationFromMenu(PARAM_INDEX.ENV_DECAY),
                               param(PARAM_INDEX.SUSTAIN), envR, totalSpan)
            raw(i) == MathRound(Times(Times(Whole(c.on.velocity), MathPow(decay, i)),
                                      amplitude(i)))
            step == Times(param(PARAM_INDEX.PITCH_DECAY),
                          param(PARAM_INDEX.PITCH_DECAY_MULTIPLIER))
        IN  \A j \in DOMAIN scheduled :
                LET e == scheduled[j]
                    i == e.index
                IN  e.type = "NoteOn" =>
                        /\ e.velocity = (IF raw(i) < 1 THEN 1
                                         ELSE IF raw(i) > 127 THEN 127 ELSE raw(i))
                        /\ (decay = Whole(0) /\ i >= 1) => e.velocity = 1
                        /\ e.pitch = clamp(Plus(Whole(c.on.pitch), Times(step, Whole(i))),
                                           Whole(0), Whole(127))

-----------------------------------------------------------------------------
(* Further claims: C21 under Spec, C22 under SpecRelease *)

\* C21: while no transport stop is observed the tracked bar never decreases
\* and changes only by flushing; the flushes of a tick are numbered
\* tracked bar + 1, + 2, ... and leave the tracked bar at the last number, so
\* successive flushes are numbered in steps of 1; a playing tick whose computed
\* bar index is below the tracked bar flushes nothing and leaves the tracked
\* bar and the accumulated pitches as they are; a tick flushes only when the
\* computed bar index is above the tracked bar.
C21_TrackedBarMonotonic ==
    [][IF IsTick
       THEN (t'.playing /\ IsNum(currentBar)) =>
               LET barIndex == barIndexOf(t')
               IN  /\ IsNum(currentBar') /\ currentBar'.v >= currentBar.v
                   /\ currentBar' # currentBar => flushes' # <<>>
                   /\ \A i \in DOMAIN flushes' : flushes'[i].bar = currentBar.v + i
                   /\ flushes' # <<>> =>
                         /\ currentBar'.v = flushes'[Len(flushes')].bar
                         /\ Less(currentBar, barIndex)
                   /\ Less(barIndex, currentBar) =>
                         /\ flushes' = <<>>
                         /\ currentBar' = currentBar
                         /\ barPitches' = barPitches
       ELSE currentBar' = currentBar /\ flushes' = <<>>]_vars

\* a tick at beat 4 (bar index 1 in 4/4) found the tracked bar at 5 with a
\* note accumulated: nothing was flushed
C21_Witness ==
    /\ t.playing /\ t.blockStartBeat = Num(4 * BeatScale)
    /\ t.meterNumerator = 4 /\ t.meterDenominator = 4
    /\ currentBar = Num(5)
    /\ barPitches # <<>>
    /\ flushes = <<>>

\* C22: every Attack menu entry is above 0 and the envelope is 0 at time 0
\* for each of them, so the note-on of repeat 0, when it is sent, has
\* velocity 1, whatever the source velocity and the other controls are.
C22_FirstRepeatVelocityOne ==
    /\ \A k \in DOMAIN SYNC_DURATIONS :
          /\ Lt(Whole(0), SYNC_DURATIONS[k])
          /\ envelopeAtTime(Whole(0), SYNC_DURATIONS[k],
                            envDurationFromMenu(PARAM_INDEX.HOLD),
                            envDurationFromMenu(PARAM_INDEX.ENV_DECAY),
                            param(PARAM_INDEX.SUSTAIN),
                            envDurationFromMenu(PARAM_INDEX.RELEASE),
                            envDurationFromMenu(PARAM_INDEX.RELEASE)) = Whole(0)
    /\ calls # <<>> =>
          \A j \in DOMAIN scheduled :
              (scheduled[j].type = "NoteOn" /\ scheduled[j].index = 0)
                  => scheduled[j].velocity = 1

\* a note of velocity 127 was released and its repeat 0 was sent with velocity 1
C22_Witness ==
    /\ calls # <<>>
    /\ calls[1].on.velocity = 127
    /\ scheduled # <<>>
    /\ scheduled[1].type = "NoteOn" /\ scheduled[1].index = 0
    /\ scheduled[1].velocity = 1

====
